---- MODULE Spec2Model ----
(***************************************************************************)
(* A model of the voltcli verb runner (lib/python/voltcli/runner.py) and   *)
(* of the config verb (lib/voltcli/volt.d/config.py).                      *)
(*                                                                         *)
(* Strings are sequences of atoms.  The atoms "." , ":" , "-" and "=" are  *)
(* the characters the code searches for or joins with; every other atom    *)
(* stands for a run of ordinary characters.  So 'volt.foo' is              *)
(* <<"volt", ".", "foo">>, '' is <<>>, and '-v' is <<"-", "v">>.           *)
(***************************************************************************)
EXTENDS Integers, Sequences, FiniteSets, TLC

VARIABLES
    pc,                   \* position of main(), or the phase of a function spec
    command_name,         \* main's command_name argument
    argv,                 \* main's *args
    utility_flags,        \* utility's verbose / debug / dryrun settings
    environment_classpath,\* environment.classpath, a list of strings
    config,               \* the VoltConfig object (its get() values)
    verbspace,            \* main's primary verbspace
    internal_verbspaces,  \* main's internal_verbspaces dictionary
    stack,                \* the VerbRunner objects of the active call chain
    steps,                \* the startup steps main has completed, in order
    last,                 \* what the last operation did (its inputs and outcome)
    fs,                   \* the files at the package output paths
    ldin,                 \* load_verbspace's inputs
    ldout                 \* load_verbspace's result

vars == <<pc, command_name, argv, utility_flags, environment_classpath, config,
          verbspace, internal_verbspaces, stack, steps, last, fs, ldin, ldout>>

----------------------------------------------------------------------------
(* Python values *)

\* Python's None, where a path or a callable is expected
None == "<None>"

\* Python's None, where a string (a sequence of atoms) is expected
NoneStr == <<"<None>">>

\* the state of an attribute that an object does not have (hasattr is false)
Absent == <<"<absent>">>

\* an empty dictionary
EmptyDict == [k \in {} |-> <<>>]

\* Python truthiness of a string-or-None value
Truthy(v) == v /= NoneStr /\ v /= Absent /\ v /= <<>>

\* sep.join(parts) for a list of strings
RECURSIVE Join(_, _)
Join(sep, parts) ==
    IF parts = <<>> THEN <<>>
    ELSE IF Len(parts) = 1 THEN parts[1]
    ELSE parts[1] \o sep \o Join(sep, Tail(parts))

\* s.find(ch): the first index of ch (1-based), or 0 for Python's -1
RECURSIVE FindFrom(_, _, _)
FindFrom(s, ch, i) ==
    IF i > Len(s) THEN 0
    ELSE IF s[i] = ch THEN i
    ELSE FindFrom(s, ch, i + 1)

Find(s, ch) == FindFrom(s, ch, 1)

\* s.split(ch, 1) for an s that contains ch: the parts before and after the first ch
Split1(s, ch) ==
    LET i == Find(s, ch)
    IN  <<SubSeq(s, 1, i - 1), SubSeq(s, i + 1, Len(s))>>

----------------------------------------------------------------------------
(* VerbRunner.__init__: the classpath *)

\* config.get(key) of the configuration store: the value, or None if absent
ConfigGet(cfg, key) == IF key \in DOMAIN cfg THEN cfg[key] ELSE NoneStr

\* runner.py:136-143 with the verb and the keyword override put after the
\* environment classpath instead of before it
ClasspathAppending(env, cfg, verb, kwargs) ==
    LET c0 == Join(<<":">>, env)
        ext == ConfigGet(cfg, <<"volt", ".", "classpath">>)
        c1 == IF Truthy(ext) THEN Join(<<":">>, <<c0, ext>>) ELSE c0
        c2 == IF verb.classpath /= Absent /\ Truthy(verb.classpath)
              THEN Join(<<":">>, <<c1, verb.classpath>>) ELSE c1
    IN  IF "classpath" \in DOMAIN kwargs
        THEN Join(<<":">>, <<c2, kwargs["classpath"]>>) ELSE c2

\* runner.py:136-143
Classpath(env, cfg, verb, kwargs) ==
    LET c0 == Join(<<":">>, env)
        ext == ConfigGet(cfg, <<"volt", ".", "classpath">>)
        c1 == IF Truthy(ext) THEN Join(<<":">>, <<c0, ext>>) ELSE c0
        c2 == IF verb.classpath /= Absent /\ Truthy(verb.classpath)
              THEN Join(<<":">>, <<verb.classpath, c1>>) ELSE c1
    IN  IF "classpath" \in DOMAIN kwargs
        THEN Join(<<":">>, <<kwargs["classpath"], c2>>) ELSE c2

----------------------------------------------------------------------------
(* Verbs and verbspaces *)

\* runner.py:64
internal_commands == <<<<"volt">>, <<"voltadmin">>>>

\* the elements of a list
Elems(seq) == {seq[i] : i \in DOMAIN seq}

\* cli.BooleanOption flags of base_cli_spec (runner.py:52-59), short forms
BaseFlags == {<<"-", "d">>, <<"-", "n">>, <<"-", "p">>, <<"-", "v">>}

\* the directory of runner.py itself, os.path.dirname(__file__)
FrameworkDir == "/fw"

\* the directories a command script or the working directory can be
Dirs == {"/fw", "/a", "/b"}

\* the root of the resources of a zip package (finder.add_resource('__main__', ...))
ResourceRoot == "__main__"

\* the commands that have a <command>.d directory somewhere
Commands == {<<"volt">>, <<"voltadmin">>, <<"user">>}

\* The classpath attribute a declared verb gets from its decorator.
VerbClasspathOf(name) ==
    IF name = <<"foo">> THEN <<"foo.jar">> ELSE Absent

\* The default go action a verb object of the verbs module registers in its
\* execute(), if its class has one.
VerbGoOf(name) ==
    IF name = <<"bar">> THEN "bar.go" ELSE None

\* The options a declared verb accepts besides the base options.
VerbOptionsOf(name) ==
    IF name = <<"package">> THEN {<<"-", "f">>} ELSE {}

\* A verb registered by a decorator call of a unit found under `root`.
DeclaredVerb(name, root) ==
    [name |-> name, origin |-> root, function |-> "user",
     classpath |-> VerbClasspathOf(name), go |-> VerbGoOf(name),
     options |-> VerbOptionsOf(name), baseverb |-> FALSE]

\* verb_cls(verb_name, default_func) of runner.py:389: HelpVerb or PackageVerb
\* around default_func, whose body is runner.go().
StandardVerb(name) ==
    [name |-> name, origin |-> "standard", function |-> "default_func",
     classpath |-> Absent, go |-> "standard.go",
     options |-> VerbOptionsOf(name), baseverb |-> TRUE]

\* VerbSpace(command_name, version, description, namespace_VOLT, verbs)
VerbSpace(name, version, description, verbs) ==
    [name |-> name, version |-> version, description |-> description,
     verbs |-> verbs]

\* verbspace.verb_names
verb_names(vs) == DOMAIN vs.verbs

----------------------------------------------------------------------------
(* load_verbspace *)

\* runner.py:359-365 with the working directory listed before the script directory
ScanBaseDirsCwdFirst(command_dir, cwd) ==
    LET d0 == <<FrameworkDir>>
        d1 == IF cwd \notin Elems(d0) THEN Append(d0, cwd) ELSE d0
    IN  IF command_dir /= None /\ command_dir \notin Elems(d1)
        THEN Append(d1, command_dir) ELSE d1

\* runner.py:359-365: scan_base_dirs
ScanBaseDirs(command_dir, cwd) ==
    LET d0 == <<FrameworkDir>>
        d1 == IF command_dir /= None /\ command_dir \notin Elems(d0)
              THEN Append(d0, command_dir) ELSE d0
    IN  IF cwd \notin Elems(d1) THEN Append(d1, cwd) ELSE d1

\* runner.py:376-381: the locations given to the finder, in order
FinderLocations(command_dir, cwd, package) ==
    ScanBaseDirs(command_dir, cwd) \o (IF package THEN <<ResourceRoot>> ELSE <<>>)

\* The decorator calls of the units of one location: each registers its verb
\* under its name in the shared verbs dictionary, replacing an entry of that name.
ExecuteUnits(verbs, names, root) ==
    [n \in DOMAIN verbs \cup names |->
        IF n \in names THEN DeclaredVerb(n, root) ELSE verbs[n]]

\* finder.search_and_execute: the locations are visited in the order added
RECURSIVE SearchAndExecute(_, _, _, _)
SearchAndExecute(locs, disk, command, verbs) ==
    IF locs = <<>> THEN verbs
    ELSE SearchAndExecute(Tail(locs), disk, command,
                          ExecuteUnits(verbs, disk[Head(locs)][command], Head(locs)))

\* runner.py:387-389 without the test of line 388: the standard verbs replace
\* discovered verbs of the same names
AddStandardVerbsAlways(verbs) ==
    LET std == {<<"help">>, <<"package">>}
    IN  [n \in DOMAIN verbs \cup std |->
            IF n \in std THEN StandardVerb(n) ELSE verbs[n]]

\* runner.py:387-389: add the standard verbs if they aren't supplied
AddStandardVerbs(verbs) ==
    LET std == {<<"help">>, <<"package">>}
    IN  [n \in DOMAIN verbs \cup std |->
            IF n \in DOMAIN verbs THEN verbs[n] ELSE StandardVerb(n)]

\* runner.py:351-391
load_verbspace(command, command_dir, cwd, disk, version, description, package) ==
    VerbSpace(command, version, description,
              AddStandardVerbs(
                  SearchAndExecute(FinderLocations(command_dir, cwd, package),
                                   disk, command, EmptyDict)))

----------------------------------------------------------------------------
(* The command processor (voltcli.cli) *)

\* a token that the option parser takes for an option
IsFlag(tok) == tok /= <<>> /\ tok[1] = "-"

\* the index of the verb token: the first token that is not an option, 0 if none
RECURSIVE VerbIndexFrom(_, _)
VerbIndexFrom(args, i) ==
    IF i > Len(args) THEN 0
    ELSE IF ~IsFlag(args[i]) THEN i
    ELSE VerbIndexFrom(args, i + 1)

VerbIndex(args) == VerbIndexFrom(args, 1)

\* no message
NoMsg == [text |-> "", name |-> <<>>, available |-> {}]

\* the result of a parse that ended in a fatal error
ParseError(text, tok) ==
    [ok |-> FALSE, error |-> [text |-> text, name |-> tok, available |-> {}],
     verb |-> None, opts |-> {}, args |-> <<>>, outer_opts |-> {}]

\* VoltCLICommandProcessor(verbs, ...).parse(args): the options before the verb
\* token are outer options, the verb token names a verb of `verbs`, and of the
\* tokens after it the recognized flags are options and the rest are the
\* positional arguments.
Parse(args, verbs) ==
    LET i == VerbIndex(args)
        before == {args[j] : j \in 1..(IF i = 0 THEN Len(args) ELSE i - 1)}
    IN  IF ~(before \subseteq BaseFlags)
        THEN ParseError("no such option", CHOOSE f \in before : f \notin BaseFlags)
        ELSE IF i = 0 THEN ParseError("no verb", <<>>)
        ELSE IF args[i] \notin DOMAIN verbs THEN ParseError("unknown verb", args[i])
        ELSE LET verb == verbs[args[i]]
                 rest == SubSeq(args, i + 1, Len(args))
                 after == {rest[j] : j \in {k \in DOMAIN rest : IsFlag(rest[k])}}
             IN  IF ~(after \subseteq BaseFlags \cup verb.options)
                 THEN ParseError("no such option",
                          CHOOSE f \in after : f \notin BaseFlags \cup verb.options)
                 ELSE [ok |-> TRUE, error |-> NoMsg, verb |-> verb,
                       opts |-> before \cup after,
                       args |-> SelectSeq(rest, LAMBDA t : ~IsFlag(t)),
                       outer_opts |-> (before \cup after) \cap BaseFlags]

\* VoltCLICommandPreprocessor(base options).preprocess(args): the base flags
\* given before the verb token
Preprocess(args) ==
    LET i == VerbIndex(args)
    IN  {args[j] : j \in 1..(IF i = 0 THEN Len(args) ELSE i - 1)} \cap BaseFlags

\* utility.set_verbose / set_debug / set_dryrun from a set of flags
FlagSettings(flags) ==
    [verbose |-> <<"-", "v">> \in flags, debug |-> <<"-", "d">> \in flags,
     dryrun |-> <<"-", "n">> \in flags]

----------------------------------------------------------------------------
(* VerbRunner *)

\* runner.py:116-145: the object VerbRunner(command, verbspace,
\* internal_verbspaces, config, cli_processor, **kwargs) constructs.  phase and
\* registered are not attributes: phase is where the runner's verb is, and
\* registered is the action given to the last set_go_default call on it.
VerbRunner(command, vs, internal, cfg, kwargs, env) ==
    [verb |-> command.verb, opts |-> command.opts, args |-> command.args,
     outer_opts |-> command.outer_opts, verbspace |-> vs, config |-> cfg,
     go_default |-> None, internal_verbspaces |-> internal,
     classpath |-> Classpath(env, cfg, command.verb, kwargs),
     phase |-> "constructed", registered |-> None]

\* the runner whose verb is executing
Top == stack[Len(stack)]

\* the stack with its top runner replaced
SetTop(runner) == [stack EXCEPT ![Len(stack)] = runner]

\* runner.py:245-249: set_go_default, leaving the first registered action in place
set_go_default_once(runner, go_default) ==
    IF runner.go_default = None
    THEN [runner EXCEPT !.go_default = go_default]
    ELSE runner

\* runner.py:245-249
set_go_default(runner, go_default) ==
    [runner EXCEPT !.go_default = go_default]

\* verb.execute(runner) of the verbs module, up to the call of the verb's
\* function: a verb that has a default go action registers it on the runner.
VerbExecute(runner) ==
    IF runner.verb.go /= None
    THEN [set_go_default(runner, runner.verb.go) EXCEPT
             !.registered = runner.verb.go, !.phase = "body"]
    ELSE [runner EXCEPT !.phase = "body"]

\* runner.py:268-282 with a dotted name resolved in the runner's own verbspace
CallTargetOwnVerbspace(self, args) ==
    IF args = <<>>
    THEN [abort |-> TRUE, verbspace |-> self.verbspace, args |-> args,
          msg |-> [text |-> "No arguments were passed to VerbRunner.call().",
                   name |-> <<>>, available |-> {}]]
    ELSE IF Find(args[1], ".") = 0
    THEN [abort |-> FALSE, msg |-> NoMsg, verbspace |-> self.verbspace, args |-> args]
    ELSE [abort |-> FALSE, msg |-> NoMsg, verbspace |-> self.verbspace,
          args |-> <<Split1(args[1], ".")[2]>> \o Tail(args)]

\* runner.py:268-282 without the two checks of a dotted name
CallTargetUnchecked(self, args) ==
    IF args = <<>>
    THEN [abort |-> TRUE, verbspace |-> self.verbspace, args |-> args,
          msg |-> [text |-> "No arguments were passed to VerbRunner.call().",
                   name |-> <<>>, available |-> {}]]
    ELSE IF Find(args[1], ".") = 0
    THEN [abort |-> FALSE, msg |-> NoMsg, verbspace |-> self.verbspace, args |-> args]
    ELSE LET verbspace_name == Split1(args[1], ".")[1]
         IN  [abort |-> FALSE, msg |-> NoMsg,
              verbspace |-> IF verbspace_name \in DOMAIN self.internal_verbspaces
                            THEN self.internal_verbspaces[verbspace_name]
                            ELSE self.verbspace,
              args |-> <<Split1(args[1], ".")[2]>> \o Tail(args)]

\* runner.py:268-282: what call() passes to _run_command, or its fatal error
CallTarget(self, args) ==
    IF args = <<>>
    THEN [abort |-> TRUE, verbspace |-> self.verbspace, args |-> args,
          msg |-> [text |-> "No arguments were passed to VerbRunner.call().",
                   name |-> <<>>, available |-> {}]]
    ELSE IF Find(args[1], ".") = 0
    THEN [abort |-> FALSE, msg |-> NoMsg, verbspace |-> self.verbspace, args |-> args]
    ELSE LET verbspace_name == Split1(args[1], ".")[1]
             verb_name == Split1(args[1], ".")[2]
         IN  IF verbspace_name \notin DOMAIN self.internal_verbspaces
             THEN [abort |-> TRUE, verbspace |-> self.verbspace, args |-> args,
                   msg |-> [text |-> "Unknown name passed to VerbRunner.call(): %s",
                            name |-> verbspace_name, available |-> {}]]
             ELSE IF verb_name \notin verb_names(self.internal_verbspaces[verbspace_name])
             THEN [abort |-> TRUE, verbspace |-> self.verbspace, args |-> args,
                   msg |-> [text |-> "Unknown verb passed to VerbRunner.call(): %s",
                            name |-> args[1],
                            available |->
                                verb_names(self.internal_verbspaces[verbspace_name])]]
             ELSE [abort |-> FALSE, msg |-> NoMsg,
                   verbspace |-> self.internal_verbspaces[verbspace_name],
                   args |-> <<verb_name>> \o Tail(args)]

\* runner.py:320-322 with the calling runner re-used for the nested command
\* instead of a new one being constructed
NestedRunnerReusingCaller(self, command, vs, kwargs, env) ==
    [self EXCEPT !.verb = command.verb, !.opts = command.opts,
                 !.args = command.args, !.verbspace = vs,
                 !.phase = "constructed"]

\* runner.py:320-322: the runner _run_command constructs for a parsed command
NestedRunner(self, command, vs, kwargs, env) ==
    VerbRunner([command EXCEPT !.outer_opts = self.outer_opts], vs,
               self.internal_verbspaces, self.config, kwargs, env)

\* runner.py:199-206 with the loop left at the first name that is not found
RECURSIVE HelpNamesStopping(_, _)
HelpNamesStopping(self, names) ==
    IF names = <<>> THEN <<>>
    ELSE IF Head(names) \in verb_names(self.verbspace)
    THEN <<[out |-> "help_verb", name |-> Head(names)]>>
         \o HelpNamesStopping(self, Tail(names))
    ELSE <<[out |-> "error: Verb was not found.", name |-> Head(names)],
           [out |-> "usage", name |-> <<>>]>>

\* runner.py:199-206: what help(*names) writes for explicit names
RECURSIVE HelpNames(_, _)
HelpNames(self, names) ==
    IF names = <<>> THEN <<>>
    ELSE (IF Head(names) \in verb_names(self.verbspace)
          THEN <<[out |-> "help_verb", name |-> Head(names)]>>
          ELSE <<[out |-> "error: Verb was not found.", name |-> Head(names)],
                 [out |-> "usage", name |-> <<>>]>>)
         \o HelpNames(self, Tail(names))

\* a set of verb names as a list, in the order verb_names iterates them
RECURSIVE InOrder(_)
InOrder(S) ==
    IF S = {} THEN <<>>
    ELSE LET n == CHOOSE x \in S : \A y \in S : Len(x) <= Len(y)
         IN  <<n>> \o InOrder(S \ {n})

\* runner.py:187-196: what help(all = True) writes
HelpAll(self) ==
    LET names == InOrder(verb_names(self.verbspace))
        verbs == self.verbspace.verbs
        nonbase == SelectSeq(names, LAMBDA n : ~verbs[n].baseverb)
        base == SelectSeq(names, LAMBDA n : verbs[n].baseverb)
    IN  <<[out |-> "===== Full Help =====", name |-> <<>>],
          [out |-> "usage", name |-> <<>>]>>
        \o [i \in DOMAIN nonbase |-> [out |-> "help_verb", name |-> nonbase[i]]]
        \o [i \in DOMAIN base |-> [out |-> "help_verb", name |-> base[i]]]

\* runner.py:179-208
help(self, names, all) ==
    IF all THEN HelpAll(self)
    ELSE IF names /= <<>> THEN HelpNames(self, names)
    ELSE <<[out |-> "usage", name |-> <<>>]>>

----------------------------------------------------------------------------
(* The inputs of a run *)

\* the most runners on the call chain: main's and those of nested call()s
MaxDepth == 2

\* main's command_dir, the working directory, version and description
MainCommandDir == "/a"
MainCwd == "/b"
MainVersion == "1.0"
MainDescription == <<"Main command">>

\* the verbs the units of <dir>/<command>.d declare
MainDisk ==
    [d \in Dirs \cup {ResourceRoot} |->
        [c \in Commands |->
            CASE c = <<"user">> /\ d = "/a" -> {<<"foo">>, <<"bar">>}
              [] c = <<"user">> /\ d = "/b" -> {<<"foo">>}
              [] c = <<"volt">> /\ d = "/fw" -> {<<"foo">>}
              [] c = <<"voltadmin">> /\ d = "/fw" -> {<<"bar">>}
              [] OTHER -> {}]]

\* the command lines main is started with
Argvs ==
    {<<<<"foo">>>>, <<<<"-", "v">>, <<"bar">>, <<"x">>>>,
     <<<<"help">>, <<"foo">>>>, <<<<"nope">>>>, <<<<"-", "x">>, <<"foo">>>>}

\* the argument lists verbs pass to runner.call()
CallArgs ==
    {<<>>,
     <<<<"foo">>, <<"x">>, <<"y">>>>,
     <<<<"bar">>, <<"-", "v">>, <<"x">>>>,
     <<<<"bar">>, <<"-", "z">>>>,
     <<<<"nope">>, <<"x">>>>,
     <<<<"volt", ".", "foo">>, <<"x">>>>,
     <<<<"voltadmin", ".", "bar">>>>,
     <<<<"volt", ".", "bar">>, <<"x">>>>,
     <<<<"missing", ".", "foo">>, <<"x">>>>}

\* the keyword arguments verbs pass to runner.call()
CallKwargs == {EmptyDict, "classpath" :> <<"k.jar">>}

\* the names verbs pass to runner.help()
HelpArgs ==
    {<<>>, <<<<"foo">>>>, <<<<"nope">>, <<"foo">>>>,
     <<<<"FOO">>, <<"help">>, <<"none">>>>}

\* the actions verbs register with runner.set_go_default()
GoActions == {"g1", "g2"}

\* the arguments verbs pass to runner.go()
GoArgs == {<<>>, <<<<"x">>>>}

\* what volt.cfg / volt_local.cfg can hold
ConfigFiles == {EmptyDict, <<"volt", ".", "classpath">> :> <<"c.jar">>}

\* a value for a variable that a specification does not use
Unused == "unused"

----------------------------------------------------------------------------
(* main *)

Init ==
    /\ pc = "start"
    /\ command_name \in {<<"user">>, <<"volt">>}
    /\ argv \in Argvs
    /\ utility_flags = FlagSettings({})
    /\ environment_classpath = <<>>
    /\ config = Unused
    /\ verbspace = Unused
    /\ internal_verbspaces = EmptyDict
    /\ stack = <<>>
    /\ steps = <<>>
    /\ last = [op |-> "none"]
    /\ fs = Unused
    /\ ldin = Unused
    /\ ldout = Unused

\* runner.py:447-451 without the three utility.set_* calls
PreprocessArgvUnset ==
    /\ pc = "start"
    /\ pc' = "preprocessed"
    /\ steps' = Append(steps, "preprocess")
    /\ last' = [op |-> "preprocess"]
    /\ UNCHANGED <<command_name, argv, utility_flags, environment_classpath, config,
                   verbspace, internal_verbspaces, stack, fs, ldin, ldout>>

\* runner.py:447-451
PreprocessArgv ==
    /\ pc = "start"
    /\ pc' = "preprocessed"
    /\ utility_flags' = FlagSettings(Preprocess(argv))
    /\ steps' = Append(steps, "preprocess")
    /\ last' = [op |-> "preprocess"]
    /\ UNCHANGED <<command_name, argv, environment_classpath, config, verbspace,
                   internal_verbspaces, stack, fs, ldin, ldout>>

\* runner.py:454-456
LoadConfig ==
    /\ pc = "preprocessed"
    /\ pc' = "configured"
    /\ config' \in ConfigFiles
    /\ steps' = Append(steps, "config")
    /\ last' = [op |-> "config"]
    /\ UNCHANGED <<command_name, argv, utility_flags, environment_classpath,
                   verbspace, internal_verbspaces, stack, fs, ldin, ldout>>

\* runner.py:459
InitializeEnvironment ==
    /\ pc = "configured"
    /\ pc' = "initialized"
    /\ environment_classpath' = <<<<"e.jar">>>>
    /\ steps' = Append(steps, "environment")
    /\ last' = [op |-> "environment"]
    /\ UNCHANGED <<command_name, argv, utility_flags, config, verbspace,
                   internal_verbspaces, stack, fs, ldin, ldout>>

\* runner.py:462-463
LoadPrimary ==
    /\ pc = "initialized"
    /\ pc' = "primary"
    /\ verbspace' = load_verbspace(command_name, MainCommandDir, MainCwd, MainDisk,
                                   MainVersion, MainDescription, FALSE)
    /\ steps' = Append(steps, "primary")
    /\ last' = [op |-> "primary"]
    /\ UNCHANGED <<command_name, argv, utility_flags, environment_classpath, config,
                   internal_verbspaces, stack, fs, ldin, ldout>>

\* runner.py:466-472: the internal_verbspaces dictionary main builds
InternalVerbspaces(command) ==
    IF command \notin Elems(internal_commands)
    THEN [c \in Elems(internal_commands) |->
             load_verbspace(c, None, MainCwd, MainDisk, MainVersion,
                            <<"Internal \"%s\" command">> \o c, FALSE)]
    ELSE EmptyDict

\* runner.py:466-472
LoadInternal ==
    /\ pc = "primary"
    /\ pc' = "internal"
    /\ internal_verbspaces' = InternalVerbspaces(command_name)
    /\ steps' = IF command_name \notin Elems(internal_commands)
                THEN Append(steps, "internal") ELSE steps
    /\ last' = [op |-> "internal"]
    /\ UNCHANGED <<command_name, argv, utility_flags, environment_classpath, config,
                   verbspace, stack, fs, ldin, ldout>>

\* runner.py:411-432 (run_command up to runner.execute()), called at runner.py:475
RunCommand ==
    /\ pc = "internal"
    /\ LET command == Parse(argv, verbspace.verbs)
       IN  /\ steps' = Append(steps, "parse")
           /\ IF command.ok
              THEN /\ pc' = "running"
                   /\ utility_flags' = FlagSettings(command.outer_opts)
                   /\ stack' = <<VerbRunner(command, verbspace, internal_verbspaces,
                                            config, EmptyDict, environment_classpath)>>
                   /\ last' = [op |-> "run_command", outcome |-> "constructed"]
              ELSE /\ pc' = "aborted"
                   /\ last' = [op |-> "run_command", outcome |-> "aborted",
                               msg |-> command.error]
                   /\ UNCHANGED <<utility_flags, stack>>
    /\ UNCHANGED <<command_name, argv, environment_classpath, config, verbspace,
                   internal_verbspaces, fs, ldin, ldout>>

----------------------------------------------------------------------------
(* The verb of the top runner at work *)

\* runner.py:261-265: runner.execute() enters the verb
Execute ==
    /\ pc = "running"
    /\ stack /= <<>>
    /\ Top.phase = "constructed"
    /\ stack' = SetTop(VerbExecute(Top))
    /\ steps' = IF Len(stack) = 1 THEN Append(steps, "execute") ELSE steps
    /\ last' = [op |-> "execute"]
    /\ UNCHANGED <<pc, command_name, argv, utility_flags, environment_classpath,
                   config, verbspace, internal_verbspaces, fs, ldin, ldout>>

\* runner.py:245-249, called by a verb's function
SetGoDefault ==
    /\ pc = "running"
    /\ stack /= <<>>
    /\ Top.phase = "body"
    /\ Top.verb.function = "user"
    /\ \E g \in GoActions :
        /\ stack' = SetTop([set_go_default(Top, g) EXCEPT !.registered = g])
        /\ last' = [op |-> "set_go_default", action |-> g]
    /\ UNCHANGED <<pc, command_name, argv, utility_flags, environment_classpath,
                   config, verbspace, internal_verbspaces, steps, fs, ldin, ldout>>

\* runner.py:251-259: go(*args)
GoResult(self, args) ==
    IF self.go_default = None
    THEN [abort |-> TRUE,
          msg |-> [text |-> "Verb \"%s\" (class %s) does not provide a default go action.",
                   name |-> self.verb.name, available |-> {}],
          invoked |-> <<>>]
    ELSE [abort |-> FALSE, msg |-> NoMsg,
          invoked |-> <<[action |-> self.go_default, runner |-> self, args |-> args]>>]

\* runner.py:251-259, called by a verb's function; default_func (runner.py:385-386)
\* calls it once, without arguments, and returns
Go ==
    /\ pc = "running"
    /\ stack /= <<>>
    /\ Top.phase = "body"
    /\ \E args \in IF Top.verb.function = "default_func" THEN {<<>>} ELSE GoArgs :
        LET r == GoResult(Top, args)
        IN  /\ last' = [op |-> "go", runner |-> Top, args |-> args,
                        aborted |-> r.abort, msg |-> r.msg, invoked |-> r.invoked]
            /\ pc' = IF r.abort THEN "aborted" ELSE pc
            /\ stack' = IF ~r.abort /\ Top.verb.function = "default_func"
                        THEN SetTop([Top EXCEPT !.phase = "after_go"])
                        ELSE stack
    /\ UNCHANGED <<command_name, argv, utility_flags, environment_classpath,
                   config, verbspace, internal_verbspaces, steps, fs, ldin, ldout>>

\* runner.py:179-208, called by a verb's function
Help ==
    /\ pc = "running"
    /\ stack /= <<>>
    /\ Top.phase = "body"
    /\ Top.verb.function = "user"
    /\ \E names \in HelpArgs, all \in BOOLEAN :
        last' = [op |-> "help", runner |-> Top, names |-> names, all |-> all,
                 out |-> help(Top, names, all)]
    /\ UNCHANGED <<pc, command_name, argv, utility_flags, environment_classpath,
                   config, verbspace, internal_verbspaces, stack, steps, fs, ldin,
                   ldout>>

\* runner.py:267-282 and 312-322: call(*args, **kwargs) up to runner.execute()
Call ==
    /\ pc = "running"
    /\ stack /= <<>>
    /\ Top.phase = "body"
    /\ Top.verb.function = "user"
    /\ Len(stack) < MaxDepth
    /\ \E args \in CallArgs, kwargs \in CallKwargs :
        LET target == CallTarget(Top, args)
            command == Parse(target.args, target.verbspace.verbs)
        IN  IF target.abort
            THEN /\ pc' = "aborted"
                 /\ last' = [op |-> "call", runner |-> Top, args |-> args,
                             kwargs |-> kwargs, outcome |-> "aborted",
                             msg |-> target.msg, parsed |-> FALSE,
                             constructed |-> FALSE]
                 /\ UNCHANGED stack
            ELSE IF ~command.ok
            THEN /\ pc' = "aborted"
                 /\ last' = [op |-> "call", runner |-> Top, args |-> args,
                             kwargs |-> kwargs, outcome |-> "aborted",
                             msg |-> command.error, parsed |-> TRUE,
                             constructed |-> FALSE]
                 /\ UNCHANGED stack
            ELSE /\ pc' = pc
                 /\ last' = [op |-> "call", runner |-> Top, args |-> args,
                             kwargs |-> kwargs, outcome |-> "constructed",
                             msg |-> NoMsg, parsed |-> TRUE, constructed |-> TRUE]
                 /\ stack' = Append(stack,
                                    NestedRunner(Top, command, target.verbspace,
                                                 kwargs, environment_classpath))
    /\ UNCHANGED <<command_name, argv, utility_flags, environment_classpath,
                   config, verbspace, internal_verbspaces, steps, fs, ldin, ldout>>

\* the verb's function returns: runner.execute() returns to _run_command
\* (runner.py:323) and call() to the calling verb, or to run_command
\* (runner.py:433) and main ends
Return ==
    /\ pc = "running"
    /\ stack /= <<>>
    /\ \/ Top.phase = "body" /\ Top.verb.function = "user"
       \/ Top.phase = "after_go"
    /\ stack' = SubSeq(stack, 1, Len(stack) - 1)
    /\ pc' = IF Len(stack) = 1 THEN "done" ELSE pc
    /\ last' = [op |-> "return", runner |-> Top]
    /\ UNCHANGED <<command_name, argv, utility_flags, environment_classpath,
                   config, verbspace, internal_verbspaces, steps, fs, ldin, ldout>>

Next ==
    \/ PreprocessArgv
    \/ LoadConfig
    \/ InitializeEnvironment
    \/ LoadPrimary
    \/ LoadInternal
    \/ RunCommand
    \/ Execute
    \/ SetGoDefault
    \/ Go
    \/ Help
    \/ Call
    \/ Return

Spec == Init /\ [][Next]_vars

----------------------------------------------------------------------------
(* VerbRunner.__init__ on its own: every combination of classpath sources *)

\* the values environment.classpath can have
EnvClasspaths == {<<>>, <<<<"e1.jar">>>>, <<<<"e1.jar">>, <<"e2.jar">>>>}

\* the values config.get('volt.classpath') can have
ConfigClasspaths == {NoneStr, <<>>, <<"c.jar">>}

\* the values of a verb's classpath attribute
VerbClasspaths == {Absent, NoneStr, <<>>, <<"v.jar">>}

\* the keyword arguments given to the constructor
ConstructorKwargs ==
    {EmptyDict, "classpath" :> <<>>, "classpath" :> <<"k.jar">>}

InitClasspath ==
    /\ pc = "new"
    /\ command_name = <<"user">>
    /\ argv = <<>>
    /\ utility_flags = FlagSettings({})
    /\ environment_classpath \in EnvClasspaths
    /\ \E ext \in ConfigClasspaths :
        config = IF ext = NoneStr THEN EmptyDict
                 ELSE <<"volt", ".", "classpath">> :> ext
    /\ verbspace = Unused
    /\ internal_verbspaces = EmptyDict
    /\ stack = <<>>
    /\ steps = <<>>
    /\ last = [op |-> "none"]
    /\ fs = Unused
    /\ ldin = Unused
    /\ ldout = Unused

\* runner.py:116-145: VerbRunner(command, ..., **kwargs) for a command whose verb
\* has any classpath attribute
Construct ==
    /\ pc = "new"
    /\ pc' = "constructed"
    /\ \E vcp \in VerbClasspaths, kwargs \in ConstructorKwargs :
        LET verb == [DeclaredVerb(<<"foo">>, "/a") EXCEPT !.classpath = vcp]
            command == [ok |-> TRUE, error |-> NoMsg, verb |-> verb, opts |-> {},
                        args |-> <<>>, outer_opts |-> {}]
        IN  /\ stack' = <<VerbRunner(command, Unused, EmptyDict, config, kwargs,
                                     environment_classpath)>>
            /\ last' = [op |-> "construct", kwargs |-> kwargs]
    /\ UNCHANGED <<command_name, argv, utility_flags, environment_classpath,
                   config, verbspace, internal_verbspaces, steps, fs, ldin, ldout>>

SpecClasspath == InitClasspath /\ [][Construct]_vars

----------------------------------------------------------------------------
(* load_verbspace on its own: every layout of the scan roots *)

\* the verb names the units of the loaded command can declare
LoadVerbNames == {<<"X">>, <<"help">>, <<"package">>}

InitLoad ==
    /\ pc = "load"
    /\ command_name \in {<<"user">>, <<"volt">>}
    /\ argv = <<>>
    /\ utility_flags = FlagSettings({})
    /\ environment_classpath = <<>>
    /\ config = EmptyDict
    /\ verbspace = Unused
    /\ internal_verbspaces = EmptyDict
    /\ stack = <<>>
    /\ steps = <<>>
    /\ last = [op |-> "none"]
    /\ fs = Unused
    /\ \E command_dir \in Dirs \cup {None}, cwd \in Dirs, package \in BOOLEAN,
          declared \in [Dirs \cup {ResourceRoot} -> SUBSET LoadVerbNames] :
        ldin = [command_dir |-> command_dir, cwd |-> cwd, package |-> package,
                disk |-> [d \in Dirs \cup {ResourceRoot} |->
                             [c \in Commands |->
                                 IF c = command_name THEN declared[d]
                                 ELSE {<<"other">>}]]]
    /\ ldout = Unused

\* runner.py:351-391
Load ==
    /\ pc = "load"
    /\ pc' = "loaded"
    /\ ldout' = [locations |-> FinderLocations(ldin.command_dir, ldin.cwd,
                                               ldin.package),
                 verbspace |-> load_verbspace(command_name, ldin.command_dir,
                                              ldin.cwd, ldin.disk, MainVersion,
                                              MainDescription, ldin.package)]
    /\ last' = [op |-> "load_verbspace"]
    /\ UNCHANGED <<command_name, argv, utility_flags, environment_classpath,
                   config, verbspace, internal_verbspaces, stack, steps, fs, ldin>>

SpecLoad == InitLoad /\ [][Load]_vars

----------------------------------------------------------------------------
(* Packaging *)

\* os.path.join(output_dir, name) for a relative name
OutputPath(output_dir, name) ==
    IF output_dir = <<>> THEN name ELSE output_dir \o <<"/">> \o name

\* the archive zipper writes at runner.py:297-310: the preamble, the generated
\* __main__.py and the library tree
Archive(name, version, description) ==
    [preamble |-> "#!/usr/bin/env python",
     main |-> [name |-> name, version |-> version, description |-> description],
     lib |-> "voltcli"]

\* what was at an output path before any packaging
OldFile == [preamble |-> "", main |-> "old", lib |-> ""]

\* utility.Zipper.open(output_path, force = force): whether it refuses to
\* replace what is at the path
ZipperRefuses(files, output_path, force) ==
    output_path \in DOMAIN files /\ ~force

\* the files after the zipper wrote `archive` at `output_path`
ZipperWrite(files, output_path, archive) ==
    [q \in DOMAIN files \cup {output_path} |->
        IF q = output_path THEN archive ELSE files[q]]

\* runner.py:294-310 with force = True given to the zipper whatever the caller said
create_package_forcing(files, output_dir, name, version, description, force) ==
    LET output_path == OutputPath(output_dir, name)
    IN  [abort |-> FALSE, msg |-> NoMsg, path |-> output_path,
         fs |-> ZipperWrite(files, output_path, Archive(name, version, description))]

\* runner.py:294-310: _create_package
create_package(files, output_dir, name, version, description, force) ==
    LET output_path == OutputPath(output_dir, name)
    IN  IF ZipperRefuses(files, output_path, force)
        THEN [abort |-> TRUE, path |-> output_path, fs |-> files,
              msg |-> [text |-> "output path exists", name |-> output_path,
                       available |-> {}]]
        ELSE [abort |-> FALSE, msg |-> NoMsg, path |-> output_path,
              fs |-> ZipperWrite(files, output_path,
                                 Archive(name, version, description))]

\* runner.py:223 with the active verbspace taken for every name
PackagedVerbspaceActive(self, name) == self.verbspace

\* runner.py:223: the verbspace packaged for a name given to package()
PackagedVerbspace(self, name) == self.internal_verbspaces[name]

\* runner.py:220-225 with every name checked before the first archive is made
PackageNamesValidatingFirst(self, files, output_dir, force, names, written) ==
    LET unknown == SelectSeq(names,
                             LAMBDA n : n \notin DOMAIN self.internal_verbspaces)
        loop[k \in 0..Len(names)] ==
            IF k = 0
            THEN [abort |-> FALSE, msg |-> NoMsg, fs |-> files, written |-> written]
            ELSE IF loop[k - 1].abort THEN loop[k - 1]
            ELSE LET vs == self.internal_verbspaces[names[k]]
                     r == create_package(loop[k - 1].fs, output_dir, vs.name,
                                         vs.version, vs.description, force)
                 IN  IF r.abort
                     THEN [abort |-> TRUE, msg |-> r.msg, fs |-> r.fs,
                           written |-> loop[k - 1].written]
                     ELSE [abort |-> FALSE, msg |-> NoMsg, fs |-> r.fs,
                           written |-> Append(loop[k - 1].written,
                                              [path |-> r.path,
                                               archive |-> r.fs[r.path]])]
    IN  IF unknown /= <<>>
        THEN [abort |-> TRUE, fs |-> files, written |-> written,
              msg |-> [text |-> "Unknown base command \"%s\" specified for packaging.",
                       name |-> Head(unknown), available |-> {}]]
        ELSE loop[Len(names)]

\* runner.py:220-225: the loop over the names given to package()
RECURSIVE PackageNames(_, _, _, _, _, _)
PackageNames(self, files, output_dir, force, names, written) ==
    IF names = <<>>
    THEN [abort |-> FALSE, msg |-> NoMsg, fs |-> files, written |-> written]
    ELSE IF Head(names) \notin DOMAIN self.internal_verbspaces
    THEN [abort |-> TRUE, fs |-> files, written |-> written,
          msg |-> [text |-> "Unknown base command \"%s\" specified for packaging.",
                   name |-> Head(names), available |-> {}]]
    ELSE LET vs == PackagedVerbspace(self, Head(names))
             r == create_package(files, output_dir, vs.name, vs.version,
                                 vs.description, force)
         IN  IF r.abort
             THEN [abort |-> TRUE, msg |-> r.msg, fs |-> r.fs, written |-> written]
             ELSE PackageNames(self, r.fs, output_dir, force, Tail(names),
                               Append(written, [path |-> r.path,
                                                archive |-> r.fs[r.path]]))

\* runner.py:210-229: package(output_dir_in, force, *args); the warning of
\* runner.py:231-235 for an old interpreter writes a message and changes nothing
package(self, files, output_dir_in, force, names) ==
    LET output_dir == IF output_dir_in = NoneStr THEN <<>> ELSE output_dir_in
    IN  IF names /= <<>>
        THEN PackageNames(self, files, output_dir, force, names, <<>>)
        ELSE LET r == create_package(files, output_dir, self.verbspace.name,
                                     self.verbspace.version,
                                     self.verbspace.description, force)
             IN  [abort |-> r.abort, msg |-> r.msg, fs |-> r.fs,
                  written |-> IF r.abort THEN <<>>
                              ELSE <<[path |-> r.path, archive |-> r.fs[r.path]]>>]

\* the output_dir arguments given to package()
PackageDirs == {NoneStr, <<"out">>}

\* the verbspace names given to package()
PackageArgs ==
    {<<>>, <<<<"volt">>>>, <<<<"volt">>, <<"voltadmin">>>>,
     <<<<"volt">>, <<"missing">>, <<"voltadmin">>>>, <<<<"volt">>, <<"volt">>>>}

\* the output paths that can hold a file before the run
OldPaths == {<<"user">>, <<"volt">>, <<"out", "/", "voltadmin">>}

InitPackage ==
    /\ pc = "running"
    /\ command_name \in {<<"user">>, <<"volt">>}
    /\ argv = <<<<"package">>>>
    /\ utility_flags = FlagSettings({})
    /\ environment_classpath = <<<<"e.jar">>>>
    /\ config = EmptyDict
    /\ verbspace = load_verbspace(command_name, MainCommandDir, MainCwd, MainDisk,
                                  MainVersion, MainDescription, FALSE)
    /\ internal_verbspaces = InternalVerbspaces(command_name)
    /\ stack = <<VerbExecute(VerbRunner(Parse(argv, verbspace.verbs), verbspace,
                                         internal_verbspaces, config, EmptyDict,
                                         environment_classpath))>>
    /\ steps = <<>>
    /\ last = [op |-> "none"]
    /\ \E old \in SUBSET OldPaths : fs = [q \in old |-> OldFile]
    /\ ldin = Unused
    /\ ldout = Unused

\* runner.py:210-229, called by the package verb's default action
Package ==
    /\ pc = "running"
    /\ \E output_dir_in \in PackageDirs, force \in BOOLEAN, names \in PackageArgs :
        LET r == package(Top, fs, output_dir_in, force, names)
        IN  /\ fs' = r.fs
            /\ pc' = IF r.abort THEN "aborted" ELSE pc
            /\ last' = [op |-> "package", runner |-> Top,
                        output_dir_in |-> output_dir_in, force |-> force,
                        names |-> names, before |-> fs, aborted |-> r.abort,
                        msg |-> r.msg, written |-> r.written]
    /\ UNCHANGED <<command_name, argv, utility_flags, environment_classpath,
                   config, verbspace, internal_verbspaces, stack, steps, ldin, ldout>>

SpecPackage == InitPackage /\ [][Package]_vars

----------------------------------------------------------------------------
(* The config verb (volt.d/config.py) *)

\* the most arguments given to the config verb
MaxConfigArgs == 2

\* the atom that stands for whitespace
Space == " "

\* s.strip(): s without its leading and trailing whitespace
RECURSIVE Strip(_)
Strip(s) ==
    IF s = <<>> THEN s
    ELSE IF Head(s) = Space THEN Strip(Tail(s))
    ELSE IF s[Len(s)] = Space THEN Strip(SubSeq(s, 1, Len(s) - 1))
    ELSE s

\* config.py:42-45: the key an argument is stored under
ConfigKey(arg) ==
    LET key == Strip(Split1(arg, "=")[1])
    IN  IF Find(key, ".") = 0 THEN <<"volt", ".">> \o key ELSE key

\* config.py:42: the value an argument stores
ConfigValue(arg) == Strip(Split1(arg, "=")[2])

\* runner.config.set_local(key, value) of the configuration store
set_local(cfg, key, value) ==
    [k \in DOMAIN cfg \cup {key} |-> IF k = key THEN value ELSE cfg[k]]

\* config.py:41-47: the loop that stores the arguments, in order
RECURSIVE StoreArgs(_, _, _)
StoreArgs(cfg, args, calls) ==
    IF args = <<>> THEN [config |-> cfg, calls |-> calls]
    ELSE StoreArgs(set_local(cfg, ConfigKey(Head(args)), ConfigValue(Head(args))),
                   Tail(args),
                   Append(calls, <<ConfigKey(Head(args)), ConfigValue(Head(args))>>))

\* config.py:32-47 with each argument tested and stored in one loop, so that the
\* arguments before the first bad one are stored
config_verb_storing_early(cfg, args) ==
    LET good[k \in 0..Len(args)] ==
            IF k = 0 THEN 0
            ELSE IF good[k - 1] = k - 1 /\ Find(args[k], "=") /= 0 THEN k
            ELSE good[k - 1]
        stored == StoreArgs(cfg, SubSeq(args, 1, good[Len(args)]), <<>>)
    IN  IF args = <<>>
        THEN [abort |-> TRUE, config |-> cfg, calls |-> <<>>,
              msg |-> [text |-> "At least one argument is required.",
                       name |-> <<>>, available |-> {}]]
        ELSE IF good[Len(args)] < Len(args)
        THEN [abort |-> TRUE, config |-> stored.config, calls |-> stored.calls,
              msg |-> [text |-> "Bad arguments (must be KEY=VALUE format):",
                       name |-> <<>>,
                       available |-> {args[good[Len(args)] + 1]}]]
        ELSE [abort |-> FALSE, msg |-> NoMsg, config |-> stored.config,
              calls |-> stored.calls]

\* config.py:32-47: the config verb's function on runner.args and runner.config
config_verb(cfg, args) ==
    LET bad == SelectSeq(args, LAMBDA arg : Find(arg, "=") = 0)
    IN  IF args = <<>>
        THEN [abort |-> TRUE, config |-> cfg, calls |-> <<>>,
              msg |-> [text |-> "At least one argument is required.",
                       name |-> <<>>, available |-> {}]]
        ELSE IF bad /= <<>>
        THEN [abort |-> TRUE, config |-> cfg, calls |-> <<>>,
              msg |-> [text |-> "Bad arguments (must be KEY=VALUE format):",
                       name |-> <<>>, available |-> Elems(bad)]]
        ELSE [abort |-> FALSE, msg |-> NoMsg,
              config |-> StoreArgs(cfg, args, <<>>).config,
              calls |-> StoreArgs(cfg, args, <<>>).calls]

\* the arguments a command line gives to the config verb
ConfigTokens ==
    {<<"a", "=", "1">>,
     <<Space, "a", Space, "=", Space, "2">>,
     <<"b", ".", "c", "=", "3">>,
     <<"x">>,
     <<"a", "=", "1", "=", "2">>,
     <<"=", "v">>,
     <<"d", "=">>}

\* the lists of at most n arguments
RECURSIVE ConfigArgLists(_)
ConfigArgLists(n) ==
    IF n = 0 THEN {<<>>}
    ELSE ConfigArgLists(n - 1)
         \cup {Append(l, t) : l \in ConfigArgLists(n - 1), t \in ConfigTokens}

\* the config verb as a unit of volt.d declares it
ConfigVerb == DeclaredVerb(<<"config">>, FrameworkDir)

InitConfig ==
    /\ pc = "running"
    /\ command_name = <<"volt">>
    /\ \E args \in ConfigArgLists(MaxConfigArgs) :
        /\ argv = <<<<"config">>>> \o args
        /\ config \in {EmptyDict, <<"volt", ".", "a">> :> <<"0">>}
        /\ stack = <<VerbExecute(VerbRunner(
                         [ok |-> TRUE, error |-> NoMsg, verb |-> ConfigVerb,
                          opts |-> {}, args |-> args, outer_opts |-> {}],
                         Unused, EmptyDict, config, EmptyDict, <<<<"e.jar">>>>))>>
    /\ utility_flags = FlagSettings({})
    /\ environment_classpath = <<<<"e.jar">>>>
    /\ verbspace = Unused
    /\ internal_verbspaces = EmptyDict
    /\ steps = <<>>
    /\ last = [op |-> "none"]
    /\ fs = Unused
    /\ ldin = Unused
    /\ ldout = Unused

\* config.py:32-47: the config verb's function runs and returns, or aborts
Config ==
    /\ pc = "running"
    /\ LET r == config_verb(Top.config, Top.args)
       IN  /\ config' = r.config
           /\ stack' = SetTop([Top EXCEPT !.config = r.config])
           /\ pc' = IF r.abort THEN "aborted" ELSE "done"
           /\ last' = [op |-> "config", args |-> Top.args, before |-> config,
                       aborted |-> r.abort, msg |-> r.msg, calls |-> r.calls]
    /\ UNCHANGED <<command_name, argv, utility_flags, environment_classpath,
                   verbspace, internal_verbspaces, steps, fs, ldin, ldout>>

SpecConfig == InitConfig /\ [][Config]_vars

----------------------------------------------------------------------------
(* Claims C1 - C10 *)

\* the segments of a string between the occurrences of ch
RECURSIVE SplitAll(_, _)
SplitAll(s, ch) ==
    IF ch \notin Elems(s) THEN <<s>>
    ELSE LET i == CHOOSE k \in DOMAIN s : s[k] = ch /\ \A j \in 1..(k - 1) : s[j] /= ch
         IN  <<SubSeq(s, 1, i - 1)>> \o SplitAll(SubSeq(s, i + 1, Len(s)), ch)

\* a string as a one-element list if it is non-empty, else no element
Present(v) == IF Truthy(v) THEN <<v>> ELSE <<>>

\* the part of a dotted name before its first "."
PrefixOf(name) ==
    CHOOSE p \in {SubSeq(name, 1, i - 1) : i \in DOMAIN name} :
        /\ "." \notin Elems(p)
        /\ Len(p) < Len(name)
        /\ name[Len(p) + 1] = "."

\* the part of a dotted name after its first "."
SuffixOf(name) == SubSeq(name, Len(PrefixOf(name)) + 2, Len(name))

\* the tokens of a list that are not options, in order
Positional(tokens) == SelectSeq(tokens, LAMBDA t : t = <<>> \/ t[1] /= "-")

\* the tokens of a list that are options
Options(tokens) == Elems(tokens) \ Elems(Positional(tokens))

\* s is an initial part of t
IsPrefix(s, t) == Len(s) <= Len(t) /\ s = SubSeq(t, 1, Len(s))

C2_CallUnknown ==
    (last.op = "call" /\ last.args /= <<>> /\ "." \in Elems(last.args[1])) =>
        LET self == last.runner
            name == last.args[1]
            M == self.internal_verbspaces
            S == PrefixOf(name)
        IN  /\ S \notin DOMAIN M =>
                /\ pc = "aborted"
                /\ last.outcome = "aborted"
                /\ last.msg.text = "Unknown name passed to VerbRunner.call(): %s"
                /\ last.msg.name = S
                /\ ~last.parsed /\ ~last.constructed
                /\ Top = self
            /\ (S \in DOMAIN M /\ SuffixOf(name) \notin verb_names(M[S])) =>
                /\ pc = "aborted"
                /\ last.outcome = "aborted"
                /\ last.msg.text = "Unknown verb passed to VerbRunner.call(): %s"
                /\ last.msg.name = name
                /\ last.msg.available = DOMAIN M[S].verbs
                /\ ~last.parsed /\ ~last.constructed
                /\ Top = self

\* C2 witness: a call of a verb that a loaded internal verbspace does not have
\* has ended the process
C2_Witness ==
    /\ last.op = "call"
    /\ pc = "aborted"
    /\ last.args /= <<>>
    /\ last.args[1] = <<"volt", ".", "bar">>
    /\ <<"volt">> \in DOMAIN last.runner.internal_verbspaces
    /\ last.msg.available /= {}

\* the inputs of the constructed runner of SpecClasspath
C3_Env == environment_classpath
C3_Ext == ConfigGet(config, <<"volt", ".", "classpath">>)
C3_Verb == IF stack[1].verb.classpath = Absent THEN NoneStr
           ELSE stack[1].verb.classpath
C3_Passed == "classpath" \in DOMAIN last.kwargs

\* C3 as stated: the classpath is the environment classpath, then the
\* volt.classpath configuration value, then the verb's classpath, then the
\* classpath keyword, left to right, with only the non-empty segments joined.
C3_AsStated ==
    pc = "constructed" =>
        stack[1].classpath =
            Join(<<":">>,
                 SelectSeq(C3_Env, LAMBDA e : e /= <<>>)
                 \o Present(C3_Ext) \o Present(C3_Verb)
                 \o (IF C3_Passed THEN Present(last.kwargs["classpath"]) ELSE <<>>))

\* C3 (amended): the segments of the classpath are, left to right: the classpath
\* keyword if passed (also when it is empty), the verb's classpath if it is
\* non-empty, the environment classpath entries (one empty segment if there are
\* none), and the volt.classpath configuration value if it is non-empty.
C3_ClasspathOrder ==
    pc = "constructed" =>
        SplitAll(stack[1].classpath, ":") =
            (IF C3_Passed THEN <<last.kwargs["classpath"]>> ELSE <<>>)
            \o Present(C3_Verb)
            \o (IF C3_Env = <<>> THEN <<<<>>>> ELSE C3_Env)
            \o Present(C3_Ext)

\* C3 witness: a runner constructed with all four classpath sources non-empty
C3_Witness ==
    /\ pc = "constructed"
    /\ Len(C3_Env) = 2
    /\ Truthy(C3_Ext) /\ Truthy(C3_Verb)
    /\ C3_Passed /\ last.kwargs["classpath"] /= <<>>
    /\ stack[1].classpath =
           <<"k.jar", ":", "v.jar", ":", "e1.jar", ":", "e2.jar", ":", "c.jar">>

\* the locations of ldout that declare verb n, by their index
C4_Declaring(n) ==
    {i \in DOMAIN ldout.locations : n \in ldin.disk[ldout.locations[i]][command_name]}

\* C4: the scanned roots are, in order and without duplicates, the framework
\* directory, the script directory (if given and not listed), the working
\* directory (if not listed) and, from a package, the resource location; a verb
\* name declared under several roots names one verb, that of the last such root.
C4_ScanOrder ==
    pc = "loaded" =>
        /\ ldout.locations =
              <<FrameworkDir>>
              \o (IF ldin.command_dir /= None /\ ldin.command_dir /= FrameworkDir
                  THEN <<ldin.command_dir>> ELSE <<>>)
              \o (IF ldin.cwd /= FrameworkDir /\ ldin.cwd /= ldin.command_dir
                  THEN <<ldin.cwd>> ELSE <<>>)
              \o (IF ldin.package THEN <<ResourceRoot>> ELSE <<>>)
        /\ \A i, j \in DOMAIN ldout.locations :
              ldout.locations[i] = ldout.locations[j] => i = j
        /\ \A n \in LoadVerbNames :
              C4_Declaring(n) /= {} =>
                  /\ n \in DOMAIN ldout.verbspace.verbs
                  /\ ldout.verbspace.verbs[n].name = n
                  /\ ldout.verbspace.verbs[n].origin =
                        ldout.locations[CHOOSE i \in C4_Declaring(n) :
                                            \A j \in C4_Declaring(n) : j <= i]
        /\ <<"other">> \notin DOMAIN ldout.verbspace.verbs

\* C4 witness: X is declared under the framework, script and working directories,
\* all different, and the loaded X is the working directory's
C4_Witness ==
    /\ pc = "loaded"
    /\ Len(ldout.locations) = 3
    /\ C4_Declaring(<<"X">>) = {1, 2, 3}
    /\ ldout.verbspace.verbs[<<"X">>].origin = ldin.cwd

\* the names and the output directory of the last package() call
C5_Dir == IF last.output_dir_in = NoneStr THEN <<>> ELSE last.output_dir_in
C5_Targets == IF last.names = <<>> THEN <<last.runner.verbspace.name>> ELSE last.names
C5_Path(n) == IF C5_Dir = <<>> THEN n ELSE C5_Dir \o <<"/">> \o n
C5_AllKnown == Elems(last.names) \subseteq DOMAIN last.runner.internal_verbspaces

\* the verbspace a target of the last package() call names
C5_Verbspace(i) ==
    IF last.names = <<>> THEN last.runner.verbspace
    ELSE last.runner.internal_verbspaces[last.names[i]]

\* C5: package() writes at output_dir/name (the bare name for output_dir None);
\* without force a file already at that path makes the call a fatal error and no
\* existing file is modified; with force the call succeeds and the file at the
\* path is the new archive.
C5_PackageForce ==
    last.op = "package" =>
        /\ \A q \in DOMAIN fs :
              q \in DOMAIN last.before \/ q \in {C5_Path(n) : n \in Elems(C5_Targets)}
        /\ ~last.force =>
              /\ \A q \in DOMAIN last.before :
                    q \in DOMAIN fs /\ fs[q] = last.before[q]
              /\ (C5_AllKnown /\ \E n \in Elems(C5_Targets) :
                                    C5_Path(n) \in DOMAIN last.before) =>
                    /\ last.aborted /\ pc = "aborted"
                    /\ last.msg.name \in {C5_Path(n) : n \in Elems(C5_Targets)}
        /\ (last.force /\ C5_AllKnown) =>
              /\ ~last.aborted /\ pc = "running"
              /\ \A i \in DOMAIN C5_Targets :
                    /\ C5_Path(C5_Targets[i]) \in DOMAIN fs
                    /\ fs[C5_Path(C5_Targets[i])].main =
                          [name |-> C5_Verbspace(i).name,
                           version |-> C5_Verbspace(i).version,
                           description |-> C5_Verbspace(i).description]

\* C5 witness: a forced package() has replaced a file that was at its output path
C5_Witness ==
    /\ last.op = "package"
    /\ last.force /\ ~last.aborted
    /\ \E q \in DOMAIN last.before :
          last.before[q] = OldFile /\ fs[q] /= OldFile

\* C6: without names package() produces one archive, of the active verbspace (or
\* is the fatal error of C5 for a path in use); with names, a name that is no
\* internal verbspace makes the call a fatal error, and a call that completes
\* has produced one archive per name, in order, from the named verbspace's own
\* name, version and description.
C6_PackageNames ==
    last.op = "package" =>
        LET self == last.runner
            M == self.internal_verbspaces
        IN  /\ last.names = <<>> =>
                /\ last.aborted <=> (C5_Path(self.verbspace.name) \in DOMAIN last.before
                                     /\ ~last.force)
                /\ last.aborted => last.written = <<>>
                /\ ~last.aborted =>
                      /\ Len(last.written) = 1
                      /\ last.written[1].path = C5_Path(self.verbspace.name)
                      /\ last.written[1].archive.main =
                            [name |-> self.verbspace.name,
                             version |-> self.verbspace.version,
                             description |-> self.verbspace.description]
            /\ (last.names /= <<>> /\ ~C5_AllKnown) =>
                /\ last.aborted /\ pc = "aborted"
            /\ (last.names /= <<>> /\ ~last.aborted) =>
                /\ C5_AllKnown
                /\ Len(last.written) = Len(last.names)
                /\ \A i \in DOMAIN last.names :
                      /\ last.written[i].path = C5_Path(last.names[i])
                      /\ last.written[i].archive.main =
                            [name |-> M[last.names[i]].name,
                             version |-> M[last.names[i]].version,
                             description |-> M[last.names[i]].description]
                      /\ last.written[i].archive.main.description /=
                            self.verbspace.description
                      /\ fs[last.written[i].path] = last.written[i].archive

\* C6 witness: package() with two names has completed with two archives
C6_Witness ==
    /\ last.op = "package"
    /\ ~last.aborted
    /\ last.names = <<<<"volt">>, <<"voltadmin">>>>
    /\ Len(last.written) = 2

\* what help() wrote, without the usage screens
C7_Reports == SelectSeq(last.out, LAMBDA e : e.out /= "usage")

\* C7: help(n1..nk) with names does not end the process and handles every name
\* in order: detailed help for a name that is exactly a verb name of the runner's
\* verbspace, a not-found report for any other, whatever came before it.
C7_HelpNames ==
    (last.op = "help" /\ ~last.all /\ last.names /= <<>>) =>
        /\ pc = "running"
        /\ Len(C7_Reports) = Len(last.names)
        /\ \A i \in DOMAIN last.names :
              /\ C7_Reports[i].name = last.names[i]
              /\ C7_Reports[i].out =
                    IF last.names[i] \in DOMAIN last.runner.verbspace.verbs
                    THEN "help_verb" ELSE "error: Verb was not found."

\* C7 witness: help() of an unknown name followed by a verb name has reported the
\* first and shown help for the second
C7_Witness ==
    /\ last.op = "help" /\ ~last.all
    /\ Len(last.names) = 2
    /\ last.names[1] \notin DOMAIN last.runner.verbspace.verbs
    /\ last.out[Len(last.out)] = [out |-> "help_verb", name |-> last.names[2]]

\* C8: go(*args) invokes the action of the last set_go_default call on the
\* runner, once, with the runner and args; on a runner with no such call since
\* its construction it is a fatal error naming the verb and invokes nothing.
C8_GoDefault ==
    last.op = "go" =>
        IF last.runner.registered = None
        THEN /\ last.aborted /\ pc = "aborted"
             /\ last.invoked = <<>>
             /\ last.msg.name = last.runner.verb.name
        ELSE /\ ~last.aborted /\ pc = "running"
             /\ last.invoked = <<[action |-> last.runner.registered,
                                  runner |-> last.runner, args |-> last.args]>>

\* C8 witness: go() on a runner whose verb registered an action and whose
\* function then registered another has invoked the second
C8_Witness ==
    /\ last.op = "go"
    /\ last.runner.verb.go = "bar.go"
    /\ last.runner.registered = "g1"
    /\ Len(last.invoked) = 1

\* the startup steps without the environment's initialization
C9_Steps == SelectSeq(steps, LAMBDA x : x /= "environment")

\* whether the flag is given before the verb token of argv
C9_Given(flag) ==
    \E i \in DOMAIN argv : argv[i] = flag /\ \A j \in 1..i : argv[j][1] = "-"

\* C9 as stated: main loads the configuration, then pre-scans argv, then builds
\* the primary verbspace, the internal ones, parses and executes.
C9_AsStated ==
    IsPrefix(C9_Steps,
             <<"config", "preprocess", "primary">>
             \o (IF command_name \in {<<"volt">>, <<"voltadmin">>} THEN <<>>
                 ELSE <<"internal">>)
             \o <<"parse", "execute">>)

\* C9 (amended): main pre-scans argv for the global flags, then loads the
\* configuration, then builds the primary verbspace, then the internal ones
\* (only for a command that is not internal), then parses argv and then executes
\* the verb; the settings of the pre-scan are in effect while verbspaces load.
C9_StartupOrder ==
    /\ IsPrefix(C9_Steps,
                <<"preprocess", "config", "primary">>
                \o (IF command_name \in {<<"volt">>, <<"voltadmin">>} THEN <<>>
                    ELSE <<"internal">>)
                \o <<"parse", "execute">>)
    /\ ("primary" \in Elems(steps) /\ "parse" \notin Elems(steps)) =>
          utility_flags = [verbose |-> C9_Given(<<"-", "v">>),
                           debug |-> C9_Given(<<"-", "d">>),
                           dryrun |-> C9_Given(<<"-", "n">>)]
    /\ (internal_verbspaces /= EmptyDict) =>
          /\ "internal" \in Elems(steps)
          /\ DOMAIN internal_verbspaces = {<<"volt">>, <<"voltadmin">>}
    /\ stack /= <<>> => "execute" \in Elems(steps) \/ Top.phase = "constructed"
    /\ pc = "done" => Len(C9_Steps) = (IF command_name = <<"volt">> THEN 5 ELSE 6)

\* C9 witness: a run with -v that loaded the internal verbspaces has ended
C9_Witness ==
    /\ pc = "done"
    /\ "internal" \in Elems(steps)
    /\ argv[1] = <<"-", "v">>

\* the classpath segments of a runner constructed for `verb` with `kwargs`
C10_Segments(verb, kwargs) ==
    Elems(environment_classpath)
    \cup Elems(Present(ConfigGet(config, <<"volt", ".", "classpath">>)))
    \cup (IF verb.classpath = Absent THEN {} ELSE Elems(Present(verb.classpath)))
    \cup (IF "classpath" \in DOMAIN kwargs THEN {kwargs["classpath"]} ELSE {})

----------------------------------------------------------------------------
(* Claims C11 - C13 *)

\* C11: a loaded verbspace has a verb named help and a verb named package
\* whatever the units declare; for a name that a scanned location declares the
\* verb is the declared one (of the last such location), and only for a name that
\* none declares is it the standard verb around default_func.
C11_StandardVerbs ==
    pc = "loaded" =>
        \A n \in {<<"help">>, <<"package">>} :
            /\ n \in DOMAIN ldout.verbspace.verbs
            /\ ldout.verbspace.verbs[n].name = n
            /\ IF \E i \in DOMAIN ldout.locations :
                     n \in ldin.disk[ldout.locations[i]][command_name]
               THEN /\ ldout.verbspace.verbs[n].function = "user"
                    /\ ldout.verbspace.verbs[n].origin \in Elems(ldout.locations)
                    /\ n \in ldin.disk[ldout.verbspace.verbs[n].origin][command_name]
               ELSE /\ ldout.verbspace.verbs[n].function = "default_func"
                    /\ ldout.verbspace.verbs[n].origin = "standard"

\* C11 witness: the units declare help and X but not package; the loaded help is
\* the declared one and the loaded package is the standard one
C11_Witness ==
    /\ pc = "loaded"
    /\ <<"help">> \in ldin.disk[FrameworkDir][command_name]
    /\ <<"X">> \in DOMAIN ldout.verbspace.verbs
    /\ ldout.verbspace.verbs[<<"help">>].function = "user"
    /\ ldout.verbspace.verbs[<<"package">>].function = "default_func"

\* the index of the first name of the last package() call that is no internal
\* verbspace
C13_FirstUnknown ==
    CHOOSE i \in DOMAIN last.names :
        /\ last.names[i] \notin DOMAIN last.runner.internal_verbspaces
        /\ \A j \in 1..(i - 1) :
              last.names[j] \in DOMAIN last.runner.internal_verbspaces

\* whether an archive before the first unknown name meets a path in use that it
\* may not replace (the fatal error of C5, which then comes first)
C13_Refused ==
    /\ ~last.force
    /\ \E j \in 1..(C13_FirstUnknown - 1) :
          \/ C5_Path(last.names[j]) \in DOMAIN last.before
          \/ \E l \in 1..(j - 1) : last.names[l] = last.names[j]

\* C13: package() checks each name just before packaging it: when n_i is the
\* first name that is no internal verbspace, the call ends in the fatal error
\* naming n_i with the archives of n_1..n_(i-1) created, in order, and none
\* created for n_i..n_k (unless an archive before n_i is refused a path in use,
\* which ends the call earlier with the error of C5).
C13_CheckedOneByOne ==
    (last.op = "package" /\ last.names /= <<>> /\ ~C5_AllKnown) =>
        LET i == C13_FirstUnknown
            M == last.runner.internal_verbspaces
            early == {C5_Path(last.names[j]) : j \in 1..(i - 1)}
        IN  /\ last.aborted /\ pc = "aborted"
            /\ IF C13_Refused
               THEN /\ last.msg.text = "output path exists"
                    /\ Len(last.written) < i - 1
               ELSE /\ last.msg.text =
                          "Unknown base command \"%s\" specified for packaging."
                    /\ last.msg.name = last.names[i]
                    /\ Len(last.written) = i - 1
                    /\ \A j \in 1..(i - 1) :
                          /\ last.written[j].path = C5_Path(last.names[j])
                          /\ fs[C5_Path(last.names[j])].main =
                                [name |-> M[last.names[j]].name,
                                 version |-> M[last.names[j]].version,
                                 description |-> M[last.names[j]].description]
            /\ \A q \in DOMAIN fs :
                  q \in early \/ (q \in DOMAIN last.before /\ fs[q] = last.before[q])

\* C13 witness: package('volt', 'missing', 'voltadmin') has ended in the fatal
\* error for 'missing' with the archive of volt made and none of voltadmin
C13_Witness ==
    /\ last.op = "package"
    /\ last.aborted
    /\ last.names = <<<<"volt">>, <<"missing">>, <<"voltadmin">>>>
    /\ last.msg.name = <<"missing">>
    /\ Len(last.written) = 1
    /\ C5_Path(<<"volt">>) \in DOMAIN fs
    /\ C5_Path(<<"voltadmin">>) \notin DOMAIN fs

\* the position of the first "=" of an argument that has one
C12_FirstEq(arg) ==
    CHOOSE i \in 1..Len(arg) :
        /\ arg[i] = "="
        /\ \A j \in 1..(i - 1) : arg[j] /= "="

\* s between its first and its last atom that is not whitespace
C12_Trim(s) ==
    LET solid == {i \in 1..Len(s) : s[i] /= Space}
    IN  IF solid = {} THEN <<>>
        ELSE SubSeq(s, CHOOSE i \in solid : \A j \in solid : i <= j,
                       CHOOSE i \in solid : \A j \in solid : j <= i)

\* a key with no "." goes under volt.<key>
C12_Qualified(key) ==
    IF \E i \in 1..Len(key) : key[i] = "." THEN key ELSE <<"volt", ".">> \o key

\* some argument is missing, or has no "="
C12_Rejected(args) ==
    \/ args = <<>>
    \/ \E i \in 1..Len(args) : \A j \in 1..Len(args[i]) : args[i][j] /= "="

\* the store after the calls, made in order on the store before
C12_Stored(before, calls, after) ==
    /\ DOMAIN after = DOMAIN before \cup {calls[i][1] : i \in 1..Len(calls)}
    /\ \A k \in DOMAIN after :
        LET by == {i \in 1..Len(calls) : calls[i][1] = k}
        IN  IF by = {} THEN after[k] = before[k]
            ELSE after[k] = calls[CHOOSE i \in by : \A j \in by : j <= i][2]

\* C12 as stated: the config verb is all-or-nothing, and an accepted argument
\* is stored under the text before its first "=" (under volt.<key> when that
\* has no "."), with the text after it as the value
C12_AsStated ==
    last.op = "config" =>
        IF C12_Rejected(last.args)
        THEN last.aborted /\ last.calls = <<>> /\ config = last.before
        ELSE /\ ~last.aborted
             /\ Len(last.calls) = Len(last.args)
             /\ \A i \in 1..Len(last.args) :
                    LET arg == last.args[i]
                        eq == C12_FirstEq(arg)
                    IN  last.calls[i] =
                            <<C12_Qualified(SubSeq(arg, 1, eq - 1)),
                              SubSeq(arg, eq + 1, Len(arg))>>
             /\ C12_Stored(last.before, last.calls, config)

\* C12: with no arguments, or with any argument that has no "=", the config
\* verb aborts before any set_local call and leaves the configuration store
\* unchanged; otherwise it stores every argument, in argument order, each split
\* at its first "=" with the whitespace around the key and around the value
\* stripped, a stripped key that has no "." being stored under volt.<key>
C12_AllOrNothing ==
    last.op = "config" =>
        IF C12_Rejected(last.args)
        THEN /\ last.aborted /\ last.calls = <<>> /\ config = last.before
             /\ pc = "aborted"
             /\ last.msg.text = IF last.args = <<>>
                                THEN "At least one argument is required."
                                ELSE "Bad arguments (must be KEY=VALUE format):"
        ELSE /\ ~last.aborted
             /\ pc = "done"
             /\ Len(last.calls) = Len(last.args)
             /\ \A i \in 1..Len(last.args) :
                    LET arg == last.args[i]
                        eq == C12_FirstEq(arg)
                    IN  last.calls[i] =
                            <<C12_Qualified(C12_Trim(SubSeq(arg, 1, eq - 1))),
                              C12_Trim(SubSeq(arg, eq + 1, Len(arg)))>>
             /\ C12_Stored(last.before, last.calls, config)

\* the verb has stored two arguments with one key, the second with whitespace
\* around its key and its value, on a store that held that key
C12_Witness ==
    /\ last.op = "config"
    /\ ~last.aborted
    /\ last.args = <<<<"a", "=", "1", "=", "2">>,
                     <<Space, "a", Space, "=", Space, "2">>>>
    /\ last.calls = <<<<<<"volt", ".", "a">>, <<"1", "=", "2">>>>,
                      <<<<"volt", ".", "a">>, <<"2">>>>>>
    /\ last.before /= EmptyDict
    /\ config[<<"volt", ".", "a">>] = <<"2">>

====
